---- MODULE Spec2Model ----
(***************************************************************************)
(* A model of mugen/utility.py: path and file enumeration, the directory   *)
(* lifecycle helpers, the argument-preprocessing decorators, the search    *)
(* for the ffmpeg binary and the execution of an ffmpeg command.           *)
(*                                                                         *)
(* A Python str is a sequence of one-character strings, so that endswith,  *)
(* startswith, split and os.path.join are computed and not assumed.        *)
(***************************************************************************)
EXTENDS Integers, Sequences, FiniteSets, TLC

VARIABLES
    fs,        \* the directory tree: node -> "none" | "file" | "dir"
    dirorder,  \* the order in which os.listdir enumerates names
    call,      \* the last filesystem operation called, with its outcome
    bin,       \* what each searched directory holds under each binary name
    PATH,      \* os.environ["PATH"]
    wcall,     \* the last call of which or get_ffmpeg_binary, with its outcome
    prev,      \* the outcome of the get_ffmpeg_binary call before the last
    pc,        \* where the call of a decorated operation stands
    inv,       \* that call: the operation, the decorator and the arguments
    new_a,     \* wrapper's new_a
    new_kw,    \* wrapper's new_kw
    raised,    \* the exception the call raised, "none" if none
    ran,       \* how many times the operation's body ran in this call
    got,       \* the arguments the operation's body received
    xpc,       \* where the call of execute_ffmpeg_command stands
    child,     \* the child process: "none", "running" or "exited"
    spawned,   \* how many child processes this call has started
    pipes,     \* what the child has written to its stdout and stderr
    exitcode,  \* the exit code of the child once it has exited
    proc,      \* p.returncode, p_out and p_err after p.communicate()
    xraised    \* the exception the call raised, NoError if none

fsVars == <<fs, dirorder, call>>
whichVars == <<bin, PATH, wcall, prev>>
decoVars == <<pc, inv, new_a, new_kw, raised, ran, got>>
execVars == <<xpc, child, spawned, pipes, exitcode, proc, xraised>>

vars == <<fs, dirorder, call, bin, PATH, wcall, prev,
          pc, inv, new_a, new_kw, raised, ran, got,
          xpc, child, spawned, pipes, exitcode, proc, xraised>>

(***************************************************************************)
(* Strings                                                                 *)
(***************************************************************************)

\* os.sep on the systems the '/' literals of the module are written for
Sep == "/"

\* str.endswith for a one-character suffix
EndsWith(s, c) == Len(s) > 0 /\ s[Len(s)] = c

\* str.startswith for a one-character prefix
StartsWith(s, c) == Len(s) > 0 /\ s[1] = c

\* str.split(c): the pieces between the occurrences of c, empty pieces kept
RECURSIVE Split(_, _)
Split(s, c) ==
    IF \A i \in 1..Len(s) : s[i] # c
    THEN <<s>>
    ELSE LET i == CHOOSE k \in 1..Len(s) :
                      s[k] = c /\ \A j \in 1..(k - 1) : s[j] # c
         IN  <<SubSeq(s, 1, i - 1)>> \o Split(SubSeq(s, i + 1, Len(s)), c)

\* os.path.join(a, b) (posixpath)
PathJoin(a, b) ==
    IF StartsWith(b, Sep) THEN b
    ELSE IF a = <<>> \/ EndsWith(a, Sep) THEN a \o b
    ELSE a \o <<Sep>> \o b

(***************************************************************************)
(* The filesystem                                                          *)
(***************************************************************************)

NameA == <<"a">>
NameB == <<"b">>
NameH == <<".", "h">>

AllNames == {NameA, NameB, NameH}

\* The paths of the modelled tree, relative to the working directory: the
\* directory a with the entries a, b and .h, and b with one entry a.
Nodes ==
    { <<NameA>>, <<NameA, NameA>>, <<NameA, NameB>>, <<NameA, NameH>>,
      <<NameA, NameB, NameA>> }

Kinds == {"none", "file", "dir"}

IsPrefix(n, m) == Len(n) <= Len(m) /\ SubSeq(m, 1, Len(n)) = n

Parent(n) == SubSeq(n, 1, Len(n) - 1)

\* How the kernel walks a path: empty components and "." name no entry
Components(s) ==
    SelectSeq(Split(s, Sep), LAMBDA p : p # <<>> /\ p # <<".">>)

\* The kind of the entry at a node (the working directory is a directory)
KindOf(f, n) ==
    IF n = <<>> THEN "dir" ELSE IF n \in Nodes THEN f[n] ELSE "none"

\* stat(2) of a path string: a trailing separator asks for a directory
Stat(f, s) ==
    LET n == Components(s)
    IN  IF s = <<>> THEN "none"
        ELSE IF KindOf(f, n) = "file" /\ EndsWith(s, Sep) THEN "none"
        ELSE KindOf(f, n)

Exists(f, s) == Stat(f, s) # "none"
IsDir(f, s) == Stat(f, s) = "dir"
IsFile(f, s) == Stat(f, s) = "file"

\* A tree: every entry lies in a directory
WellFormed(f) ==
    \A n \in Nodes : f[n] # "none" => KindOf(f, Parent(n)) = "dir"

\* os.listdir(path): the names of the entries of a directory, in the order
\* the OS enumerates them
Listdir(f, order, s) ==
    LET n == Components(s)
    IN  SelectSeq(order, LAMBDA nm : KindOf(f, Append(n, nm)) # "none")

Result(f, e) == [fs |-> f, err |-> e]

\* rmtree removing the directory entry alone, not what it holds
RmtreeShallow(f, s) ==
    LET n == Components(s)
    IN  IF Stat(f, s) = "dir"
        THEN Result([m \in Nodes |-> IF m = n THEN "none" ELSE f[m]], "none")
        ELSE Result(f, "NotADirectoryError")

\* shutil.rmtree(path)
Rmtree(f, s) ==
    LET n == Components(s)
    IN  IF Stat(f, s) = "dir"
        THEN Result([m \in Nodes |-> IF IsPrefix(n, m) THEN "none" ELSE f[m]],
                    "none")
        ELSE IF Stat(f, s) = "none" THEN Result(f, "FileNotFoundError")
        ELSE Result(f, "NotADirectoryError")

\* os.mkdir(path)
Mkdir(f, n) ==
    IF KindOf(f, n) # "none" THEN Result(f, "FileExistsError")
    ELSE IF KindOf(f, Parent(n)) = "file" THEN Result(f, "NotADirectoryError")
    ELSE IF KindOf(f, Parent(n)) = "none" THEN Result(f, "FileNotFoundError")
    ELSE Result([f EXCEPT ![n] = "dir"], "none")

\* os.makedirs(name), exist_ok=False: the missing ancestors first
RECURSIVE MakedirsNode(_, _)
MakedirsNode(f, n) ==
    LET head == Parent(n)
        r == IF head # <<>> /\ KindOf(f, head) = "none"
             THEN MakedirsNode(f, head)
             ELSE Result(f, "none")
    IN  IF r.err \notin {"none", "FileExistsError"} THEN r
        ELSE Mkdir(r.fs, n)

Makedirs(f, s) == MakedirsNode(f, Components(s))

\* ensure_dir(*directories)
RECURSIVE EnsureDir(_, _)
EnsureDir(f, dirs) ==
    IF dirs = <<>> THEN Result(f, "none")
    ELSE LET d == Head(dirs)
             r == IF ~Exists(f, d) THEN Makedirs(f, d) ELSE Result(f, "none")
         IN  IF r.err # "none" THEN r ELSE EnsureDir(r.fs, Tail(dirs))

\* recreate_dir(*directories)
RECURSIVE RecreateDir(_, _)
RecreateDir(f, dirs) ==
    IF dirs = <<>> THEN Result(f, "none")
    ELSE LET d == Head(dirs)
             r1 == IF Exists(f, d) THEN Rmtree(f, d) ELSE Result(f, "none")
             r2 == IF r1.err # "none" THEN r1 ELSE Makedirs(r1.fs, d)
         IN  IF r2.err # "none" THEN r2 ELSE RecreateDir(r2.fs, Tail(dirs))

\* delete_dir without its test of os.path.exists
RECURSIVE DeleteDirUnchecked(_, _)
DeleteDirUnchecked(f, dirs) ==
    IF dirs = <<>> THEN Result(f, "none")
    ELSE LET r == Rmtree(f, Head(dirs))
         IN  IF r.err # "none" THEN r ELSE DeleteDirUnchecked(r.fs, Tail(dirs))

\* delete_dir(*directories)
RECURSIVE DeleteDir(_, _)
DeleteDir(f, dirs) ==
    IF dirs = <<>> THEN Result(f, "none")
    ELSE LET d == Head(dirs)
             r == IF Exists(f, d) THEN Rmtree(f, d) ELSE Result(f, "none")
         IN  IF r.err # "none" THEN r ELSE DeleteDir(r.fs, Tail(dirs))

\* touch(filename): open(filename, 'a').close()
Touch(f, s) ==
    LET n == Components(s)
    IN  IF Stat(f, s) = "dir" \/ EndsWith(s, Sep)
        THEN Result(f, "IsADirectoryError")
        ELSE IF KindOf(f, Parent(n)) = "file"
        THEN Result(f, "NotADirectoryError")
        ELSE IF KindOf(f, Parent(n)) = "none"
        THEN Result(f, "FileNotFoundError")
        ELSE Result([f EXCEPT ![n] = "file"], "none")

\* listdir_nohidden without its test of the leading '.'
ListdirWithHidden(f, order, s) ==
    LET path == PathJoin(s, <<>>)
    IN  [i \in 1..Len(Listdir(f, order, path)) |->
            path \o Listdir(f, order, path)[i]]

\* listdir_nohidden(path), the generator read to its end
ListdirNohidden(f, order, s) ==
    LET path == PathJoin(s, <<>>)
        shown == SelectSeq(Listdir(f, order, path),
                           LAMBDA file : ~StartsWith(file, "."))
    IN  [i \in 1..Len(shown) |-> path \o shown[i]]

\* get_files leaving out the sources that are neither directory nor file
RECURSIVE GetFilesSkipMissing(_, _, _)
GetFilesSkipMissing(f, order, sources) ==
    IF sources = <<>> THEN <<>>
    ELSE LET source == Head(sources)
             found == IF IsDir(f, source)
                      THEN SelectSeq(ListdirNohidden(f, order, source),
                                     LAMBDA file : IsFile(f, file))
                      ELSE IF IsFile(f, source) THEN <<source>>
                      ELSE <<>>
         IN  found \o GetFilesSkipMissing(f, order, Tail(sources))

\* get_files(sources)
RECURSIVE GetFiles(_, _, _)
GetFiles(f, order, sources) ==
    IF sources = <<>> THEN <<>>
    ELSE LET source == Head(sources)
             source_is_dir == IsDir(f, source)
             found == IF source_is_dir
                      THEN SelectSeq(ListdirNohidden(f, order, source),
                                     LAMBDA file : IsFile(f, file))
                      ELSE <<source>>
         IN  found \o GetFiles(f, order, Tail(sources))

(***************************************************************************)
(* The callers of the filesystem operations                                *)
(***************************************************************************)

\* The most directories one call of a directory operation is given
MaxDirs == 2
\* The most sources one call of get_files is given
MaxSources == 2

RECURSIVE PathOf(_)
PathOf(n) ==
    IF Len(n) = 1 THEN n[1] ELSE PathOf(Parent(n)) \o <<Sep>> \o n[Len(n)]

\* What callers pass as a directory, and as a source (a directory may be
\* written with its trailing separator)
DirArgs == {PathOf(n) : n \in Nodes}
SourceArgs ==
    DirArgs \cup {PathOf(n) \o <<Sep>> : n \in {<<NameA>>, <<NameA, NameB>>}}

SeqsUpTo(S, k) == UNION {[1..n -> S] : n \in 1..k}

Orders ==
    {o \in [1..Cardinality(AllNames) -> AllNames] :
        \A i, j \in DOMAIN o : i # j => o[i] # o[j]}

\* No call is in progress: the last one has returned to its caller
Idle == [op |-> "idle", args |-> <<>>, err |-> "none", ret |-> <<>>, nth |-> 0]

\* The outcome of a call: the exception it raised ("none": it returned), the
\* value it returned, and whether it is the caller's first or repeated call
Called(op, args, err, ret, nth) ==
    [op |-> op, args |-> args, err |-> err, ret |-> ret, nth |-> nth]

\* touch(filename) is called
CallTouch ==
    \E s \in DirArgs :
        /\ call = Idle
        /\ LET r == Touch(fs, s)
           IN  /\ fs' = r.fs
               /\ call' = Called("touch", <<s>>, r.err, <<>>, 1)
               /\ UNCHANGED <<dirorder, whichVars, decoVars, execVars>>

\* ensure_dir(*directories) is called
CallEnsureDir ==
    \E ds \in SeqsUpTo(DirArgs, MaxDirs) :
        /\ call = Idle
        /\ LET r == EnsureDir(fs, ds)
           IN  /\ fs' = r.fs
               /\ call' = Called("ensure_dir", ds, r.err, <<>>, 1)
               /\ UNCHANGED <<dirorder, whichVars, decoVars, execVars>>

\* recreate_dir(*directories) is called
CallRecreateDir ==
    \E ds \in SeqsUpTo(DirArgs, MaxDirs) :
        /\ call = Idle
        /\ LET r == RecreateDir(fs, ds)
           IN  /\ fs' = r.fs
               /\ call' = Called("recreate_dir", ds, r.err, <<>>, 1)
               /\ UNCHANGED <<dirorder, whichVars, decoVars, execVars>>

\* delete_dir(*directories) is called
CallDeleteDir ==
    \E ds \in SeqsUpTo(DirArgs, MaxDirs) :
        /\ call = Idle
        /\ LET r == DeleteDir(fs, ds)
           IN  /\ fs' = r.fs
               /\ call' = Called("delete_dir", ds, r.err, <<>>, 1)
               /\ UNCHANGED <<dirorder, whichVars, decoVars, execVars>>

\* get_files(sources) is called; it only reads the filesystem
CallGetFiles ==
    \E srcs \in SeqsUpTo(SourceArgs, MaxSources) :
        /\ call = Idle
        /\ call' = Called("get_files", srcs, "none",
                          GetFiles(fs, dirorder, srcs), 1)
        /\ UNCHANGED <<fs, dirorder, whichVars, decoVars, execVars>>

\* The caller repeats a delete_dir call with the same directories
CallDeleteDirAgain ==
    /\ call.op = "delete_dir"
    /\ call.nth = 1
    /\ LET r == DeleteDir(fs, call.args)
       IN  /\ fs' = r.fs
           /\ call' = Called("delete_dir", call.args, r.err, <<>>, 2)
           /\ UNCHANGED <<dirorder, whichVars, decoVars, execVars>>

\* The call returns to its caller
ReturnFs ==
    /\ call # Idle
    /\ call' = Idle
    /\ UNCHANGED <<fs, dirorder, whichVars, decoVars, execVars>>

\* Another program removes a file
EnvUnlink ==
    \E n \in Nodes :
        /\ call = Idle
        /\ fs[n] = "file"
        /\ fs' = [fs EXCEPT ![n] = "none"]
        /\ call' = Idle
        /\ UNCHANGED <<dirorder, whichVars, decoVars, execVars>>

\* The OS is free to enumerate a directory in any order
EnvReorder ==
    \E o \in Orders :
        /\ call = Idle
        /\ o # dirorder
        /\ dirorder' = o
        /\ call' = Idle
        /\ UNCHANGED <<fs, whichVars, decoVars, execVars>>

TypeOKFs ==
    /\ fs \in [Nodes -> Kinds]
    /\ WellFormed(fs)
    /\ dirorder \in Orders

(***************************************************************************)
(* The search for the ffmpeg binary                                        *)
(***************************************************************************)

Ffmpeg == <<"f", "f", "m", "p", "e", "g">>
FfmpegExe == Ffmpeg \o <<".", "e", "x", "e">>
Executables == {Ffmpeg, FfmpegExe}

\* os.curdir and os.pathsep
Curdir == <<".">>
Pathsep == ":"

\* The directories that can hold a binary: the working directory, /u and /v
Places == {"cwd", "u", "v"}

\* What a directory holds under a name: nothing, a directory, a regular
\* file without or with the execute permission
BinKinds == {"none", "dir", "file", "xfile"}

\* The entry a path string names, <<place, name>>, or <<>> for none
PlaceOf(s) ==
    LET c == Components(s)
    IN  IF ~StartsWith(s, Sep) /\ Len(c) = 1 /\ c[1] \in Executables
        THEN <<"cwd", c[1]>>
        ELSE IF StartsWith(s, Sep) /\ Len(c) = 2 /\ c[1] \in {<<"u">>, <<"v">>}
                   /\ c[2] \in Executables
        THEN <<c[1][1], c[2]>>
        ELSE <<>>

BinKind(b, s) == IF PlaceOf(s) = <<>> THEN "none" ELSE b[PlaceOf(s)]

\* os.path.isfile(path) and os.access(path, os.X_OK)
BinIsFile(b, s) == BinKind(b, s) \in {"file", "xfile"}
BinAccessX(b, s) == BinKind(b, s) \in {"dir", "xfile"}

\* Python's None and a returned str
None == [none |-> TRUE, str |-> <<>>]
Str(s) == [none |-> FALSE, str |-> s]

\* The truth value Python gives a str or None in a condition
Truthy(v) == ~v.none /\ v.str # <<>>

\* which without its test of the execute permission
RECURSIVE WhichScanAnyFile(_, _, _)
WhichScanAnyFile(b, envdir_list, executable) ==
    IF envdir_list = <<>> THEN None
    ELSE LET executable_path == PathJoin(Head(envdir_list), executable)
         IN  IF BinIsFile(b, executable_path)
             THEN Str(executable_path)
             ELSE WhichScanAnyFile(b, Tail(envdir_list), executable)

\* The loop of which over envdir_list
RECURSIVE WhichScan(_, _, _)
WhichScan(b, envdir_list, executable) ==
    IF envdir_list = <<>> THEN None
    ELSE LET executable_path == PathJoin(Head(envdir_list), executable)
         IN  IF BinIsFile(b, executable_path) /\ BinAccessX(b, executable_path)
             THEN Str(executable_path)
             ELSE WhichScan(b, Tail(envdir_list), executable)

\* which(executable)
Which(b, path, executable) ==
    WhichScan(b, <<Curdir>> \o Split(path, Pathsep), executable)

\* get_ffmpeg_binary trying the Windows name first
GetFfmpegBinaryExeFirst(b, path) ==
    IF Truthy(Which(b, path, FfmpegExe))
    THEN [err |-> "none", ret |-> Str(FfmpegExe)]
    ELSE IF Truthy(Which(b, path, Ffmpeg))
    THEN [err |-> "none", ret |-> Str(Ffmpeg)]
    ELSE [err |-> "IOError", ret |-> None]

\* get_ffmpeg_binary()
GetFfmpegBinary(b, path) ==
    IF Truthy(Which(b, path, Ffmpeg))
    THEN [err |-> "none", ret |-> Str(Ffmpeg)]
    ELSE IF Truthy(Which(b, path, FfmpegExe))
    THEN [err |-> "none", ret |-> Str(FfmpegExe)]
    ELSE [err |-> "IOError", ret |-> None]

\* The most entries the search path has
MaxPathEntries == 2

\* The entries a search path is made of; the empty entry is allowed
PathEntries == {<<>>, <<Sep, "u">>, <<Sep, "v">>}

RECURSIVE JoinEntries(_)
JoinEntries(es) ==
    IF Len(es) = 1 THEN es[1]
    ELSE es[1] \o <<Pathsep>> \o JoinEntries(Tail(es))

PathValues == {JoinEntries(es) : es \in SeqsUpTo(PathEntries, MaxPathEntries)}

\* The Unix name is anything; the Windows name is absent or an executable
BinStates ==
    {b \in [Places \X Executables -> BinKinds] :
        \A p \in Places : b[<<p, FfmpegExe>>] \in {"none", "xfile"}}

\* No call of get_ffmpeg_binary has returned yet
Never == [err |-> "never", ret |-> None]

WIdle == [op |-> "idle", arg |-> <<>>, err |-> "none", ret |-> None]

\* which(executable) is called
CallWhich ==
    \E executable \in Executables :
        /\ wcall = WIdle
        /\ wcall' = [op |-> "which", arg |-> executable, err |-> "none",
                     ret |-> Which(bin, PATH, executable)]
        /\ UNCHANGED <<bin, PATH, prev, fsVars, decoVars, execVars>>

\* get_ffmpeg_binary() is called
CallGetFfmpegBinary ==
    /\ wcall = WIdle
    /\ LET r == GetFfmpegBinary(bin, PATH)
       IN  wcall' = [op |-> "get_ffmpeg_binary", arg |-> <<>>,
                     err |-> r.err, ret |-> r.ret]
    /\ UNCHANGED <<bin, PATH, prev, fsVars, decoVars, execVars>>

\* The call returns to its caller, who remembers what get_ffmpeg_binary gave
ReturnWhich ==
    /\ wcall # WIdle
    /\ wcall' = WIdle
    /\ prev' = IF wcall.op = "get_ffmpeg_binary"
               THEN [err |-> wcall.err, ret |-> wcall.ret]
               ELSE prev
    /\ UNCHANGED <<bin, PATH, fsVars, decoVars, execVars>>

\* Between two calls a binary is installed, removed or has its mode changed
EnvSetBin ==
    \E e \in Places \X Executables, k \in BinKinds :
        /\ wcall = WIdle
        /\ k # bin[e]
        /\ [bin EXCEPT ![e] = k] \in BinStates
        /\ bin' = [bin EXCEPT ![e] = k]
        /\ UNCHANGED <<PATH, wcall, prev, fsVars, decoVars, execVars>>

\* Between two calls an entry is put in front of the search path
EnvPrependPath ==
    \E e \in PathEntries :
        /\ wcall = WIdle
        /\ Len(Split(PATH, Pathsep)) < MaxPathEntries
        /\ PATH' = e \o <<Pathsep>> \o PATH
        /\ UNCHANGED <<bin, wcall, prev, fsVars, decoVars, execVars>>

\* Between two calls the first entry is taken off the search path
EnvDropPath ==
    /\ wcall = WIdle
    /\ Len(Split(PATH, Pathsep)) > 1
    /\ PATH' = JoinEntries(Tail(Split(PATH, Pathsep)))
    /\ UNCHANGED <<bin, wcall, prev, fsVars, decoVars, execVars>>

(***************************************************************************)
(* The decorators                                                          *)
(***************************************************************************)

\* An argument value: its content, and how many times the decorator's
\* transform has been applied to it
Arg(content) == [val |-> content, applied |-> 0]

Ok(v) == [err |-> "none", val |-> v]
Raise(e, v) == [err |-> e, val |-> v]

\* json.dumps raises TypeError for a document that holds a bytes object
Encodable(doc) == \A i \in DOMAIN doc : doc[i] # "bytes"

\* _ensure_json_serializable(dictionary)
EnsureJsonSerializable(v) ==
    IF Encodable(v.val)
    THEN Ok([v EXCEPT !.applied = @ + 1])
    ELSE Raise("TypeError", v)

\* _sanitize_directory_name appending '/' whatever the name ends with
SanitizeAlwaysAppend(v) ==
    Ok([val |-> v.val \o <<Sep>>, applied |-> v.applied + 1])

\* _sanitize_directory_name(directory_name)
SanitizeDirectoryName(v) ==
    Ok([val |-> IF EndsWith(v.val, Sep) THEN v.val ELSE v.val \o <<Sep>>,
        applied |-> v.applied + 1])

\* Some other transform given to preprocess_args: it marks its argument
MarkArg(v) == Ok([val |-> v.val \o <<"#">>, applied |-> v.applied + 1])

\* fun(arg) for the transform the decorator was built with
ApplyFun(fun, v) ==
    CASE fun = "sanitize_directory_name" -> SanitizeDirectoryName(v)
      [] fun = "ensure_json_serializable" -> EnsureJsonSerializable(v)
      [] OTHER -> MarkArg(v)

\* f.__code__.co_varnames: the positional parameters, the keyword-only
\* ones, the *args and **kwargs names, then the local variables
CoVarnames(F) == F.pos \o F.kwonly \o F.varargs \o F.varkw \o F.locals

\* [fun(arg) if (name in varnames) else arg for (arg, name) in zip(a, names)]
\* evaluated left to right; an exception of fun ends it
RECURSIVE NewA(_, _, _, _)
NewA(fun, varnames, a, names) ==
    IF a = <<>> \/ names = <<>> THEN Ok(<<>>)
    ELSE LET first == IF Head(names) \in varnames
                      THEN ApplyFun(fun, Head(a))
                      ELSE Ok(Head(a))
             rest == NewA(fun, varnames, Tail(a), Tail(names))
         IN  IF first.err # "none" THEN Raise(first.err, <<>>)
             ELSE IF rest.err # "none" THEN rest
             ELSE Ok(<<first.val>> \o rest.val)

\* {k: fun(v) if k in varnames else v for (k, v) in kw.items()}
NewKw(fun, varnames, kw) ==
    IF \E k \in DOMAIN kw : k \in varnames /\ ApplyFun(fun, kw[k]).err # "none"
    THEN Raise("TypeError", kw)
    ELSE Ok([k \in DOMAIN kw |->
                IF k \in varnames THEN ApplyFun(fun, kw[k]).val ELSE kw[k]])

\* The most arguments a call passes beyond the positional parameters
MaxExtras == 2
\* The most separators a directory name ends with
MaxSlashes == 2

\* The decorated operations:
\*   def f(d, x): t = ...          def f(d, *args): ...
\*   def f(x, *args, d): ...       def f(x, *args): d = ...
Signature(pos, kwonly, varargs, locals) ==
    [pos |-> pos, kwonly |-> kwonly, varargs |-> varargs, varkw |-> <<>>,
     locals |-> locals]

Signatures ==
    { Signature(<<"d", "x">>, <<>>, <<>>, <<"t">>),
      Signature(<<"d">>, <<>>, <<"args">>, <<>>),
      Signature(<<"x">>, <<"d">>, <<"args">>, <<>>),
      Signature(<<"x">>, <<>>, <<"args">>, <<"d">>) }

\* The decorators: the two of the module, and preprocess_args with a
\* transform of the caller's
Decorators ==
    {"sanitize_directory_name", "ensure_json_serializable", "preprocess_args"}

\* The parameter names a decorator is given
VarnameSets == {{"d"}, {"x"}, {"d", "x"}}

RECURSIVE Slashes(_)
Slashes(k) == IF k = 0 THEN <<>> ELSE <<Sep>> \o Slashes(k - 1)

\* The argument values passed to an operation under each decorator
ArgValues(fun) ==
    CASE fun = "sanitize_directory_name" ->
             {Arg(<<>>)} \cup {Arg(<<"d">> \o Slashes(k)) : k \in 0..MaxSlashes}
      [] fun = "ensure_json_serializable" ->
             {Arg(<<>>), Arg(<<"i">>), Arg(<<"bytes">>), Arg(<<"i", "bytes">>)}
      [] OTHER -> {Arg(<<"d">>), Arg(<<"x">>)}

SeqsFromZero(S, k) == UNION {[1..n -> S] : n \in 0..k}

SeqRange(sq) == {sq[i] : i \in DOMAIN sq}

NoCall ==
    [F |-> Signature(<<>>, <<>>, <<>>, <<>>), fun |-> "none", varnames |-> {},
     a |-> <<>>, kw |-> <<>>]

\* decorator.decorator(wrapper): a call of the decorated operation reaches
\* wrapper(f, *a, **kw) with the positional parameters and the extra
\* positional arguments in a, and the keyword-only arguments in kw
CallDecorated ==
    /\ pc = "idle"
    /\ \E F \in Signatures, fun \in Decorators, varnames \in VarnameSets :
       \E posvals \in [1..Len(F.pos) -> ArgValues(fun)],
          extras \in SeqsFromZero(ArgValues(fun),
                                  IF F.varargs = <<>> THEN 0 ELSE MaxExtras),
          kwvals \in [SeqRange(F.kwonly) -> ArgValues(fun)] :
            inv' = [F |-> F, fun |-> fun, varnames |-> varnames,
                    a |-> posvals \o extras, kw |-> kwvals]
    /\ pc' = "new_a"
    /\ UNCHANGED <<new_a, new_kw, raised, ran, got, fsVars, whichVars, execVars>>

\* wrapper, the list comprehension of new_a
WrapperNewA ==
    /\ pc = "new_a"
    /\ LET r == NewA(inv.fun, inv.varnames, inv.a, CoVarnames(inv.F))
       IN  IF r.err = "none"
           THEN new_a' = r.val /\ pc' = "new_kw" /\ UNCHANGED raised
           ELSE raised' = r.err /\ pc' = "raised" /\ UNCHANGED new_a
    /\ UNCHANGED <<inv, new_kw, ran, got, fsVars, whichVars, execVars>>

\* wrapper, the dict comprehension of new_kw
WrapperNewKw ==
    /\ pc = "new_kw"
    /\ LET r == NewKw(inv.fun, inv.varnames, inv.kw)
       IN  IF r.err = "none"
           THEN new_kw' = r.val /\ pc' = "call_f" /\ UNCHANGED raised
           ELSE raised' = r.err /\ pc' = "raised" /\ UNCHANGED new_kw
    /\ UNCHANGED <<inv, new_a, ran, got, fsVars, whichVars, execVars>>

\* wrapper, return f(*new_a, **new_kw): the body of the operation runs
WrapperCallF ==
    /\ pc = "call_f"
    /\ ran' = ran + 1
    /\ got' = [a |-> new_a, kw |-> new_kw]
    /\ pc' = "returned"
    /\ UNCHANGED <<inv, new_a, new_kw, raised, fsVars, whichVars, execVars>>

\* The call is over: its result or its exception has reached the caller
ReturnDecorated ==
    /\ pc \in {"returned", "raised"}
    /\ pc' = "idle"
    /\ inv' = NoCall
    /\ new_a' = <<>>
    /\ new_kw' = <<>>
    /\ raised' = "none"
    /\ ran' = 0
    /\ got' = [a |-> <<>>, kw |-> <<>>]
    /\ UNCHANGED <<fsVars, whichVars, execVars>>

(***************************************************************************)
(* The execution of an ffmpeg command                                      *)
(***************************************************************************)

\* The largest exit code of the child; -1 stands for a child killed by a
\* signal, which Popen reports as a negative returncode
MaxExit == 2
ExitCodes == (-1)..MaxExit

\* The most characters the child writes to one of its streams
MaxOutput == 2

NoError == [type |-> "none", code |-> 0, err |-> <<>>]
NotRun == [returncode |-> 0, p_out |-> <<>>, p_err |-> <<>>]
NoOutput == [out |-> <<>>, err |-> <<>>]

\* the condition of line 142 testing for a positive code only
ExitFailedPositive(returncode) == returncode > 0

\* p.returncode != 0
ExitFailed(returncode) == returncode # 0

\* ex.FFMPEGError(f"... Error code: {p.returncode}, Error: {p_err}")
FFMPEGError(returncode, p_err) ==
    [type |-> "FFMPEGError", code |-> returncode, err |-> p_err]

\* execute_ffmpeg_command(cmd) is called
CallExecute ==
    /\ xpc = "idle"
    /\ xpc' = "popen"
    /\ UNCHANGED <<child, spawned, pipes, exitcode, proc, xraised,
                   fsVars, whichVars, decoVars>>

\* sp.Popen(cmd, stdout=sp.PIPE, stderr=sp.PIPE) starts the child
PopenSpawns ==
    /\ xpc = "popen"
    /\ child' = "running"
    /\ spawned' = spawned + 1
    /\ xpc' = "communicate"
    /\ UNCHANGED <<pipes, exitcode, proc, xraised, fsVars, whichVars, decoVars>>

\* sp.Popen cannot start the command (no such executable): it raises
PopenRaises ==
    /\ xpc = "popen"
    /\ xraised' = [type |-> "OSError", code |-> 0, err |-> <<>>]
    /\ xpc' = "raised"
    /\ UNCHANGED <<child, spawned, pipes, exitcode, proc,
                   fsVars, whichVars, decoVars>>

\* The child writes to its standard output or to its standard error
ChildWrites ==
    /\ child = "running"
    /\ \/ /\ Len(pipes.out) < MaxOutput
          /\ pipes' = [pipes EXCEPT !.out = Append(@, "o")]
       \/ /\ Len(pipes.err) < MaxOutput
          /\ pipes' = [pipes EXCEPT !.err = Append(@, "e")]
    /\ UNCHANGED <<xpc, child, spawned, exitcode, proc, xraised,
                   fsVars, whichVars, decoVars>>

\* The child terminates
ChildExits ==
    /\ child = "running"
    /\ \E code \in ExitCodes : exitcode' = code
    /\ child' = "exited"
    /\ UNCHANGED <<xpc, spawned, pipes, proc, xraised,
                   fsVars, whichVars, decoVars>>

\* p_out, p_err = p.communicate(): reads both streams to their end and
\* waits for the child
Communicate ==
    /\ xpc = "communicate"
    /\ child = "exited"
    /\ proc' = [returncode |-> exitcode, p_out |-> pipes.out, p_err |-> pipes.err]
    /\ xpc' = "check"
    /\ UNCHANGED <<child, spawned, pipes, exitcode, xraised,
                   fsVars, whichVars, decoVars>>

\* if p.returncode != 0: raise ex.FFMPEGError(...); else fall off the end
CheckReturncode ==
    /\ xpc = "check"
    /\ IF ExitFailed(proc.returncode)
       THEN xraised' = FFMPEGError(proc.returncode, proc.p_err) /\ xpc' = "raised"
       ELSE xpc' = "returned" /\ UNCHANGED xraised
    /\ UNCHANGED <<child, spawned, pipes, exitcode, proc,
                   fsVars, whichVars, decoVars>>

\* The call is over; the next one starts afresh
ReturnExecute ==
    /\ xpc \in {"returned", "raised"}
    /\ xpc' = "idle"
    /\ child' = "none"
    /\ spawned' = 0
    /\ pipes' = NoOutput
    /\ exitcode' = 0
    /\ proc' = NotRun
    /\ xraised' = NoError
    /\ UNCHANGED <<fsVars, whichVars, decoVars>>

(***************************************************************************)
(* The specifications: one per group of operations, the variables of the   *)
(* other groups at rest                                                    *)
(***************************************************************************)

FsAtRest ==
    /\ fs = [n \in Nodes |-> "none"]
    /\ dirorder = <<NameA, NameB, NameH>>
    /\ call = Idle

WhichAtRest ==
    /\ bin = [e \in Places \X Executables |-> "none"]
    /\ PATH = <<>>
    /\ wcall = WIdle
    /\ prev = Never

DecoAtRest ==
    /\ pc = "idle"
    /\ inv = NoCall
    /\ new_a = <<>>
    /\ new_kw = <<>>
    /\ raised = "none"
    /\ ran = 0
    /\ got = [a |-> <<>>, kw |-> <<>>]

ExecAtRest ==
    /\ xpc = "idle"
    /\ child = "none"
    /\ spawned = 0
    /\ pipes = NoOutput
    /\ exitcode = 0
    /\ proc = NotRun
    /\ xraised = NoError

InitFs ==
    /\ fs = [n \in Nodes |-> "none"]
    /\ dirorder \in Orders
    /\ call = Idle
    /\ WhichAtRest
    /\ DecoAtRest
    /\ ExecAtRest

NextFs ==
    \/ CallTouch
    \/ CallEnsureDir
    \/ CallRecreateDir
    \/ CallDeleteDir
    \/ CallGetFiles
    \/ CallDeleteDirAgain
    \/ ReturnFs
    \/ EnvUnlink
    \/ EnvReorder

SpecFs == InitFs /\ [][NextFs]_vars

InitWhich ==
    /\ bin \in BinStates
    /\ PATH \in PathValues
    /\ wcall = WIdle
    /\ prev = Never
    /\ FsAtRest
    /\ DecoAtRest
    /\ ExecAtRest

NextWhich ==
    \/ CallWhich
    \/ CallGetFfmpegBinary
    \/ ReturnWhich
    \/ EnvSetBin
    \/ EnvPrependPath
    \/ EnvDropPath

SpecWhich == InitWhich /\ [][NextWhich]_vars

InitDeco == DecoAtRest /\ FsAtRest /\ WhichAtRest /\ ExecAtRest

NextDeco ==
    \/ CallDecorated
    \/ WrapperNewA
    \/ WrapperNewKw
    \/ WrapperCallF
    \/ ReturnDecorated

SpecDeco == InitDeco /\ [][NextDeco]_vars

InitExec == ExecAtRest /\ FsAtRest /\ WhichAtRest /\ DecoAtRest

NextExec ==
    \/ CallExecute
    \/ PopenSpawns
    \/ PopenRaises
    \/ ChildWrites
    \/ ChildExits
    \/ Communicate
    \/ CheckReturncode
    \/ ReturnExecute

SpecExec == InitExec /\ [][NextExec]_vars

(***************************************************************************)
(* Properties of the filesystem operations                                 *)
(***************************************************************************)

\* The directory named by s exists and holds nothing
EmptyDir(f, s) ==
    /\ IsDir(f, s)
    /\ \A m \in Nodes : Parent(m) = Components(s) => f[m] = "none"

\* One of the two paths lies strictly inside the other
Nested(s, t) ==
    /\ Components(s) # Components(t)
    /\ \/ IsPrefix(Components(s), Components(t))
       \/ IsPrefix(Components(t), Components(s))

RecreateDirReturned == call.op = "recreate_dir" /\ call.err = "none"

\* C1 as stated: after a recreate_dir call that returns, every directory
\* passed to it exists and is empty.
C1_EveryDirEmpty ==
    RecreateDirReturned =>
        \A i \in DOMAIN call.args : EmptyDir(fs, call.args[i])

\* C1 amended: after a recreate_dir call that returns, every directory
\* passed to it that neither contains nor lies inside a directory listed
\* after it exists and is empty.
C1_UnnestedDirEmpty ==
    RecreateDirReturned =>
        \A i \in DOMAIN call.args :
            (\A j \in DOMAIN call.args :
                j > i => ~Nested(call.args[i], call.args[j]))
            => EmptyDir(fs, call.args[i])

\* recreate_dir has returned for two directories, neither inside the other,
\* and both are empty
C1_Witness ==
    /\ RecreateDirReturned
    /\ Len(call.args) = 2
    /\ call.args[1] # call.args[2]
    /\ ~Nested(call.args[1], call.args[2])
    /\ EmptyDir(fs, call.args[1])
    /\ EmptyDir(fs, call.args[2])

\* What the specification of get_files asks of one source: a directory gives
\* its visible regular files, anything else gives itself
ExpectedOf(f, order, s) ==
    LET n == Components(s)
        prefix == IF EndsWith(s, Sep) THEN s ELSE s \o <<Sep>>
        names == SelectSeq(order,
                     LAMBDA nm : /\ nm[1] # "."
                                 /\ Append(n, nm) \in Nodes
                                 /\ f[Append(n, nm)] = "file")
    IN  IF n \in Nodes /\ f[n] = "dir"
        THEN [i \in 1..Len(names) |-> prefix \o names[i]]
        ELSE <<s>>

RECURSIVE ExpectedFiles(_, _, _)
ExpectedFiles(f, order, srcs) ==
    IF srcs = <<>> THEN <<>>
    ELSE ExpectedFiles(f, order, SubSeq(srcs, 1, Len(srcs) - 1))
            \o ExpectedOf(f, order, srcs[Len(srcs)])

AllExist(f, srcs) == \A i \in DOMAIN srcs : Exists(f, srcs[i])

\* C7: get_files leaves the filesystem as it is and, for sources that are
\* files and directories, returns the contributions of the sources in input
\* order: a file itself, a directory its direct children that are regular
\* files with a name not starting with '.', in listing order.
C7_GetFilesFlatOrdered ==
    [][(call'.op = "get_files" /\ AllExist(fs, call'.args)) =>
            /\ fs' = fs
            /\ call'.err = "none"
            /\ call'.ret = ExpectedFiles(fs, dirorder, call'.args)]_vars

\* get_files of a file and of the directory that holds it, a hidden file
\* and a subdirectory with a file of its own
C7_Witness ==
    /\ call.op = "get_files"
    /\ call.args = <<PathOf(<<NameA, NameA>>), PathOf(<<NameA>>) \o <<Sep>>>>
    /\ fs[<<NameA, NameA>>] = "file"
    /\ fs[<<NameA, NameH>>] = "file"
    /\ fs[<<NameA, NameB, NameA>>] = "file"
    /\ call.ret = <<PathOf(<<NameA, NameA>>), PathOf(<<NameA, NameA>>)>>

SomeMissing(f, srcs) == \E i \in DOMAIN srcs : ~Exists(f, srcs[i])

\* C8 as stated: get_files fails when a listed source does not exist, and
\* returns no path of a source that does not exist.
C8_MissingSourceFails ==
    (call.op = "get_files" /\ SomeMissing(fs, call.args)) =>
        /\ call.err # "none"
        /\ \A i \in DOMAIN call.args : \A k \in DOMAIN call.ret :
               call.ret[k] = call.args[i] => Exists(fs, call.args[i])

\* C8 amended: get_files does not fail when a listed source does not exist;
\* it returns every such source as it was given, in its place among the
\* contributions of the other sources.
C8_MissingSourceReturned ==
    (call.op = "get_files" /\ SomeMissing(fs, call.args)) =>
        /\ call.err = "none"
        /\ \A i \in DOMAIN call.args :
               ~Exists(fs, call.args[i]) =>
                   \E k \in DOMAIN call.ret : call.ret[k] = call.args[i]
        /\ call.ret = ExpectedFiles(fs, dirorder, call.args)

\* get_files of a directory and of a path that does not exist
C8_Witness ==
    /\ call.op = "get_files"
    /\ Len(call.args) = 2
    /\ IsDir(fs, call.args[1])
    /\ ~Exists(fs, call.args[2])
    /\ Len(call.ret) = 2
    /\ call.ret[2] = call.args[2]

\* C9: after a delete_dir call that returns, none of its directories
\* exists; the same call made again returns and changes nothing; and
\* delete_dir of paths that do not exist returns and changes nothing.
C9_DeleteDirIdempotent ==
    [][call'.op = "delete_dir" =>
            /\ call'.err = "none" =>
                   \A i \in DOMAIN call'.args : ~Exists(fs', call'.args[i])
            /\ (\A i \in DOMAIN call'.args : ~Exists(fs, call'.args[i])) =>
                   call'.err = "none" /\ fs' = fs
            /\ (call.op = "delete_dir" /\ call.err = "none") =>
                   call'.args = call.args /\ call'.err = "none" /\ fs' = fs
      ]_vars

\* delete_dir has been called a second time with the same two directories
C9_Witness ==
    /\ call.op = "delete_dir"
    /\ call.nth = 2
    /\ call.err = "none"
    /\ Len(call.args) = 2
    /\ call.args[1] # call.args[2]

(***************************************************************************)
(* Properties of the search for the binary                                 *)
(***************************************************************************)

\* The directories which examines, in its order: the current directory,
\* then the entries of PATH
Examined(path) == <<Curdir>> \o Split(path, Pathsep)

\* The place a directory string names
DirPlace(d) == IF d \in {<<>>, <<".">>} THEN "cwd" ELSE d[2]

\* The directory holds the name as a regular file marked executable
HasBinary(b, d, exe) == b[<<DirPlace(d), exe>>] = "xfile"

\* The path of a name in a directory
BuiltPath(d, exe) == IF d = <<>> THEN exe ELSE d \o <<Sep>> \o exe

\* C3: which returns the path built from the first directory, among the
\* current directory and then the PATH entries in order, that holds the name
\* as an executable regular file; None when there is none, without raising;
\* never the path of a directory or of a file that is not executable.
C3_WhichFirstMatch ==
    wcall.op = "which" =>
        LET dirs == Examined(PATH)
            hits == {i \in DOMAIN dirs : HasBinary(bin, dirs[i], wcall.arg)}
        IN  /\ wcall.err = "none"
            /\ hits = {} => wcall.ret = None
            /\ hits # {} =>
                   \E i \in hits :
                       /\ \A j \in hits : i <= j
                       /\ wcall.ret = Str(BuiltPath(dirs[i], wcall.arg))
            /\ ~wcall.ret.none => BinKind(bin, wcall.ret.str) = "xfile"

\* which passes over a directory named ffmpeg in the current directory and
\* a file that is not executable in /u, and returns the binary in /v
C3_Witness ==
    /\ wcall.op = "which"
    /\ wcall.arg = Ffmpeg
    /\ PATH = <<Sep, "u", Pathsep, Sep, "v">>
    /\ bin[<<"cwd", Ffmpeg>>] = "dir"
    /\ bin[<<"u", Ffmpeg>>] = "file"
    /\ bin[<<"v", Ffmpeg>>] = "xfile"
    /\ wcall.ret = Str(<<Sep, "v", Sep>> \o Ffmpeg)

Found(b, path, exe) ==
    \E i \in DOMAIN Examined(path) : HasBinary(b, Examined(path)[i], exe)

\* C4: get_ffmpeg_binary returns "ffmpeg" whenever the Unix name is found,
\* "ffmpeg.exe" only when the Unix name is not found and the Windows name
\* is, and raises IOError exactly when neither is found, in the search path
\* and filesystem as they are at the call, whatever an earlier call gave.
C4_FfmpegBinaryChoice ==
    wcall.op = "get_ffmpeg_binary" =>
        LET unix == Found(bin, PATH, Ffmpeg)
            windows == Found(bin, PATH, FfmpegExe)
        IN  /\ unix => wcall.err = "none" /\ wcall.ret = Str(Ffmpeg)
            /\ wcall.ret = Str(FfmpegExe) <=>
                   wcall.err = "none" /\ ~unix /\ windows
            /\ wcall.err = "IOError" <=> ~unix /\ ~windows
            /\ wcall.err \in {"none", "IOError"}

\* A call of get_ffmpeg_binary has returned "ffmpeg"; the next one, after
\* the binaries went away, raises IOError
C4_Witness ==
    /\ wcall.op = "get_ffmpeg_binary"
    /\ prev = [err |-> "none", ret |-> Str(Ffmpeg)]
    /\ wcall.err = "IOError"

(***************************************************************************)
(* Properties of the decorators                                            *)
(***************************************************************************)

CallOver == pc \in {"returned", "raised"}

\* The positions of a and the keys of kw bound to a parameter the decorator
\* names
NamedPositions == {i \in DOMAIN inv.F.pos : inv.F.pos[i] \in inv.varnames}
NamedKeys == {k \in DOMAIN inv.kw : k \in inv.varnames}

\* The number of separators a string ends with
RECURSIVE TrailingSeps(_)
TrailingSeps(s) ==
    IF EndsWith(s, Sep) THEN 1 + TrailingSeps(SubSeq(s, 1, Len(s) - 1)) ELSE 0

\* The string without the separators it ends with
Stem(s) == SubSeq(s, 1, Len(s) - TrailingSeps(s))

SanitizeOver == CallOver /\ inv.fun = "sanitize_directory_name"

\* C2 as stated: every directory name passed as a named argument reaches
\* the operation ending with exactly one separator.
C2_ExactlyOneSeparator ==
    SanitizeOver =>
        /\ pc = "returned"
        /\ \A i \in NamedPositions : TrailingSeps(got.a[i].val) = 1
        /\ \A k \in NamedKeys : TrailingSeps(got.kw[k].val) = 1

\* What C2 amended asks of a name as passed and as received
SeparatorEnsured(passed, received) ==
    /\ EndsWith(received, Sep)
    /\ Stem(received) = Stem(passed)
    /\ TrailingSeps(received) =
           IF TrailingSeps(passed) = 0 THEN 1 ELSE TrailingSeps(passed)

\* C2 amended: every directory name passed as a named argument reaches the
\* operation ending with a separator: one is appended to a name that ends
\* with none (the empty name too), and a name that ends with one or more
\* is passed on as it is.
C2_SeparatorEnsured ==
    SanitizeOver =>
        /\ pc = "returned"
        /\ \A i \in NamedPositions :
               SeparatorEnsured(inv.a[i].val, got.a[i].val)
        /\ \A k \in NamedKeys :
               SeparatorEnsured(inv.kw[k].val, got.kw[k].val)

\* An operation has received "d//" as it was passed and "d/" for "d"
C2_Witness ==
    /\ SanitizeOver
    /\ inv.F.pos = <<"d", "x">>
    /\ inv.varnames = {"d", "x"}
    /\ inv.a[1].val = <<"d", Sep, Sep>>
    /\ got.a[1].val = <<"d", Sep, Sep>>
    /\ inv.a[2].val = <<"d">>
    /\ got.a[2].val = <<"d", Sep>>

\* Some argument bound to a named parameter is not JSON-encodable
SomeNamedNotEncodable ==
    \/ \E i \in NamedPositions : ~Encodable(inv.a[i].val)
    \/ \E k \in NamedKeys : ~Encodable(inv.kw[k].val)

\* The operation received the content of every argument as it was passed
ReceivedUnchanged ==
    /\ Len(got.a) = Len(inv.a)
    /\ \A i \in DOMAIN inv.a : got.a[i].val = inv.a[i].val
    /\ DOMAIN got.kw = DOMAIN inv.kw
    /\ \A k \in DOMAIN inv.kw : got.kw[k].val = inv.kw[k].val

\* C6: under ensure_json_serializable, a call with a named argument that is
\* not JSON-encodable raises and the operation's body never runs; a call
\* whose named arguments are all encodable runs the body exactly once with
\* the arguments unchanged.
C6_SerializableOrNeverRun ==
    (CallOver /\ inv.fun = "ensure_json_serializable") =>
        IF SomeNamedNotEncodable
        THEN pc = "raised" /\ raised = "TypeError" /\ ran = 0
        ELSE pc = "returned" /\ ran = 1 /\ ReceivedUnchanged

\* The transform applied once to an argument
Once(fun, v) == ApplyFun(fun, v).val

\* The transform raises for some argument bound to a named parameter
SomeNamedRaises ==
    \/ \E i \in NamedPositions : ApplyFun(inv.fun, inv.a[i]).err # "none"
    \/ \E k \in NamedKeys : ApplyFun(inv.fun, inv.kw[k]).err # "none"

\* C10: the transform is applied exactly once to every argument whose
\* parameter name the decorator names and to no other argument, every other
\* argument reaches the operation unchanged, and the operation is invoked
\* exactly once with the resulting arguments.
C10_OnlyNamedTransformed ==
    (CallOver /\ ~SomeNamedRaises) =>
        /\ pc = "returned"
        /\ ran = 1
        /\ Len(got.a) = Len(inv.a)
        /\ \A i \in DOMAIN inv.a :
               got.a[i] = IF i \in NamedPositions
                          THEN Once(inv.fun, inv.a[i])
                          ELSE inv.a[i]
        /\ DOMAIN got.kw = DOMAIN inv.kw
        /\ \A k \in DOMAIN inv.kw :
               got.kw[k] = IF k \in NamedKeys
                           THEN Once(inv.fun, inv.kw[k])
                           ELSE inv.kw[k]

(***************************************************************************)
(* Properties of the execution of an ffmpeg command                        *)
(***************************************************************************)

ExecuteOver == xpc \in {"returned", "raised"}

\* What the claim says of a call that is over, the child having been started
OneChildAwaited ==
    /\ spawned = 1
    /\ child = "exited"
    /\ xpc = "raised" <=> exitcode # 0
    /\ xpc = "raised" => xraised = FFMPEGError(exitcode, pipes.err)
    /\ xpc = "returned" => xraised = NoError

\* C5 as stated: every call spawns exactly one child and is over only after
\* the child has terminated; it raises FFMPEGError, with the exit code and
\* the captured standard error, exactly when the exit code is not 0, and
\* returns nothing otherwise.
C5_OneChildAwaited ==
    /\ spawned <= 1
    /\ ExecuteOver => OneChildAwaited

\* C5 amended: a call whose child process can be started spawns exactly one
\* child and is over only after the child has terminated; it raises
\* FFMPEGError, with the exit code and the captured standard error, exactly
\* when the exit code is not 0, and returns nothing otherwise. A call whose
\* child cannot be started raises Popen's OSError and leaves no child.
C5_OneChildAwaitedIfStarted ==
    /\ spawned <= 1
    /\ child = "running" => xpc = "communicate"
    /\ ExecuteOver =>
           IF xraised.type = "OSError"
           THEN xpc = "raised" /\ spawned = 0 /\ child = "none"
           ELSE OneChildAwaited

\* The child wrote to both streams and was killed by a signal; the call
\* raised FFMPEGError with the negative code and the standard error text
C5_Witness ==
    /\ xpc = "raised"
    /\ spawned = 1
    /\ child = "exited"
    /\ exitcode = -1
    /\ pipes = [out |-> <<"o">>, err |-> <<"e", "e">>]
    /\ xraised = FFMPEGError(-1, <<"e", "e">>)

====
